---- MODULE Spec2Model ----
(***************************************************************************)
(* Model of mlpack's PrioritizedReplay                                     *)
(* (src/mlpack/methods/reinforcement_learning/replay/prioritized_replay.hpp)*)
(*                                                                         *)
(* A fixed-capacity circular buffer of transitions plus a sum-tree of      *)
(* per-slot priorities.  Priorities, alpha and max_priority take natural   *)
(* values, so every tree node is a natural number; a sampling mass and an  *)
(* importance weight are exact fractions <<numerator, denominator>>.       *)
(* The SumTree class itself is not part of the sources at hand: its        *)
(* operations (NewSumTree .. FindPrefixSum) follow the specification.      *)
(***************************************************************************)
EXTENDS Integers, Sequences, FiniteSets, TLC

VARIABLES
  capacity,           \* constructor argument, fixed afterwards
  batchSize,          \* constructor argument, fixed afterwards
  alpha,              \* constructor argument, fixed afterwards
  position,           \* slot the next Store writes
  full,               \* the buffer has wrapped
  max_priority,       \* running maximum of the priorities seen
  transitions,        \* states/actions/rewards/nextStates/isTerminal, per slot
  idxSum,             \* the sum-tree, nodes 1 .. 2*size-1, leaves last
  nStores,            \* number of Store calls made so far
  call,               \* the call that has just returned (name, arguments)
  outcome,            \* how that call ended
  sampledIndices,     \* what Sample / sampleProportional returned
  weights,            \* what Sample returned
  sampledTransitions, \* the five gathered fields Sample returned
  returnedIndices,    \* indices some sampling call has returned so far
  sampledCurrent,     \* slots returned since they were last written
  actors              \* per concurrent actor: where it is inside Store

vars == <<capacity, batchSize, alpha, position, full, max_priority,
          transitions, idxSum, nStores, call, outcome, sampledIndices,
          weights, sampledTransitions, returnedIndices, sampledCurrent,
          actors>>

\* What the learner's bookkeeping and the concurrent actors add to the state.
ledgerVars == <<returnedIndices, sampledCurrent>>

bufferVars == <<capacity, batchSize, alpha, position, full, max_priority,
                transitions, idxSum, nStores>>

-----------------------------------------------------------------------------
(* Bounds of the model.                                                    *)

MaxCapacity == 3
MaxPriority == 2
MaxExtraStores == 1

BatchSizes == {1, 2}
Alphas == {0, 1}
Betas == {0, 1}
\* Values of arma::randu(), as fractions <<numerator, denominator>>: the two
\* ends of [0, 1] and the draw 1/10.
Draws == {<<0, 1>>, <<1, 10>>, <<1, 1>>}

\* Priorities reach update_priorities as an arma::uvec: unsigned integers.
Priorities == 0..MaxPriority

\* Largest value of size_t, cut to the widest integer TLC computes with.
SIZE_MAX == 2147483647

-----------------------------------------------------------------------------
(* Arithmetic helpers.                                                     *)

RECURSIVE IPow(_, _)
IPow(b, e) == IF e = 0 THEN 1 ELSE b * IPow(b, e - 1)

Max2(a, b) == IF a >= b THEN a ELSE b

\* (n - 1) on a size_t: 0 - 1 wraps around.
SizeTDec(n) == IF n = 0 THEN SIZE_MAX ELSE n - 1

-----------------------------------------------------------------------------
(* The sum-tree.                                                           *)

RECURSIVE GrowSize(_, _)
GrowSize(size, cap) == IF size < cap THEN GrowSize(2 * size, cap) ELSE size

\* int size = 1; while (size < capacity) size *= 2;
TreeSizeFor(cap) == GrowSize(1, cap)

NewSumTree(size) == [k \in 1..(2 * size - 1) |-> 0]

TreeSize(t) == (Len(t) + 1) \div 2

Total(t) == t[1]

LeafValue(t, i) == t[TreeSize(t) + i]

\* An index the tree accepts.
TreeIndexOk(cap, i) == 0 <= i /\ i < cap

RECURSIVE Propagate(_, _)
Propagate(t, node) ==
  IF node < 1 THEN t
  ELSE Propagate([t EXCEPT ![node] = t[2 * node] + t[2 * node + 1]],
                 node \div 2)

TreeUpdate(t, i, v) ==
  Propagate([t EXCEPT ![TreeSize(t) + i] = v], (TreeSize(t) + i) \div 2)

RECURSIVE RangeSum(_, _, _)
RangeSum(t, lo, hi) ==
  IF hi < lo THEN 0 ELSE LeafValue(t, hi) + RangeSum(t, lo, hi - 1)

\* Descent for the mass mn/md below node.
RECURSIVE Descend(_, _, _, _)
Descend(t, node, mn, md) ==
  IF node >= TreeSize(t) THEN node - TreeSize(t)
  ELSE IF mn < t[2 * node] * md
       THEN Descend(t, 2 * node, mn, md)
       ELSE Descend(t, 2 * node + 1, mn - t[2 * node] * md, md)

FindPrefixSum(t, cap, mn, md) ==
  IF mn >= Total(t) * md THEN cap - 1 ELSE Descend(t, 1, mn, md)

-----------------------------------------------------------------------------
(* The replay buffer.                                                      *)

NoCall == [op |-> "none"]

\* A populated count that forgets the full flag.
UpperBoundIgnoringFull == position

\* full ? capacity : position
UpperBound == IF full THEN capacity ELSE position

Slots == 0..(capacity - 1)

\* Two actors that store into the one buffer.
Actors == {"actor1", "actor2"}

Idle == [pc |-> "idle", slot |-> 0]

\* The constructor.
Construct(bsz, cap, a) ==
  /\ capacity = cap
  /\ batchSize = bsz
  /\ alpha = a
  /\ position = 0
  /\ full = FALSE
  /\ max_priority = 1
  /\ transitions = [i \in Slots |-> 0]
  /\ idxSum = NewSumTree(TreeSizeFor(capacity))
  /\ nStores = 0
  /\ call = NoCall
  /\ outcome = "ok"
  /\ sampledIndices = <<>>
  /\ weights = <<>>
  /\ sampledTransitions = <<>>
  /\ returnedIndices = {}
  /\ sampledCurrent = {}
  /\ actors = [actor \in Actors |-> Idle]

Init ==
  \E bsz \in BatchSizes, cap \in 1..MaxCapacity, a \in Alphas :
    Construct(bsz, cap, a)

\* idxSum[position] = max_priority * alpha;
StorePriority(maxp, a) == maxp * a

\* A cursor that wraps one slot early, so the last slot is never written.
AdvanceCursorEarlyWrap(pos, cap, f) ==
  IF pos + 2 >= cap
  THEN [position |-> 0, full |-> TRUE]
  ELSE [position |-> pos + 1, full |-> f]

\* A cursor that recomputes full on every call instead of latching it.
AdvanceCursorUnlatched(pos, cap, f) ==
  IF pos + 1 = cap
  THEN [position |-> 0, full |-> TRUE]
  ELSE [position |-> pos + 1, full |-> FALSE]

\* A cursor that wraps without recording that the buffer has filled.
AdvanceCursorNoFull(pos, cap, f) ==
  IF pos + 1 = cap
  THEN [position |-> 0, full |-> f]
  ELSE [position |-> pos + 1, full |-> f]

\* position++; if (position == capacity) { full = true; position = 0; }
AdvanceCursor(pos, cap, f) ==
  IF pos + 1 = cap
  THEN [position |-> 0, full |-> TRUE]
  ELSE [position |-> pos + 1, full |-> f]

\* A Store that writes the leaf and leaves its ancestors as they were.
StoreWithoutPropagation ==
  /\ call = NoCall
  /\ nStores < capacity + MaxExtraStores
  /\ transitions' = [transitions EXCEPT ![position] = nStores + 1]
  /\ idxSum' = [idxSum EXCEPT ![TreeSize(idxSum) + position] =
                                StorePriority(max_priority, alpha)]
  /\ position' = AdvanceCursor(position, capacity, full).position
  /\ full' = AdvanceCursor(position, capacity, full).full
  /\ nStores' = nStores + 1
  /\ call' = [op |-> "Store"]
  /\ outcome' = "ok"
  /\ sampledIndices' = <<>>
  /\ weights' = <<>>
  /\ sampledTransitions' = <<>>
  /\ UNCHANGED <<capacity, batchSize, alpha, max_priority>>

\* A Store that advances the cursor before it writes the leaf.
StoreLeafAfterAdvance ==
  /\ call = NoCall
  /\ nStores < capacity + MaxExtraStores
  /\ transitions' = [transitions EXCEPT ![position] = nStores + 1]
  /\ idxSum' = TreeUpdate(idxSum,
                          AdvanceCursor(position, capacity, full).position,
                          StorePriority(max_priority, alpha))
  /\ position' = AdvanceCursor(position, capacity, full).position
  /\ full' = AdvanceCursor(position, capacity, full).full
  /\ nStores' = nStores + 1
  /\ call' = [op |-> "Store"]
  /\ outcome' = "ok"
  /\ sampledIndices' = <<>>
  /\ weights' = <<>>
  /\ sampledTransitions' = <<>>
  /\ UNCHANGED <<capacity, batchSize, alpha, max_priority>>

Store ==
  /\ call = NoCall
  /\ nStores < capacity + MaxExtraStores
  /\ transitions' = [transitions EXCEPT ![position] = nStores + 1]
  /\ idxSum' = TreeUpdate(idxSum, position, StorePriority(max_priority, alpha))
  /\ position' = AdvanceCursor(position, capacity, full).position
  /\ full' = AdvanceCursor(position, capacity, full).full
  /\ nStores' = nStores + 1
  /\ call' = [op |-> "Store"]
  /\ outcome' = "ok"
  /\ sampledIndices' = <<>>
  /\ weights' = <<>>
  /\ sampledTransitions' = <<>>
  /\ UNCHANGED <<capacity, batchSize, alpha, max_priority>>

\* idxSum[indices[i]] = alpha * priorities[i];
UpdatePriority(a, p) == a * p

\* A loop that writes the leaf of the slot after the one it was given.
RECURSIVE UpdateLoopNextSlot(_, _, _, _, _, _, _)
UpdateLoopNextSlot(t, maxp, cap, a, indices, priorities, i) ==
  IF i > Len(indices)
  THEN [tree |-> t, maxp |-> maxp, outcome |-> "ok"]
  ELSE IF ~TreeIndexOk(cap, indices[i])
  THEN [tree |-> t, maxp |-> maxp, outcome |-> "ContractViolation"]
  ELSE UpdateLoopNextSlot(
         TreeUpdate(t, (indices[i] + 1) % cap,
                    UpdatePriority(a, priorities[i])),
         Max2(maxp, priorities[i]), cap, a, indices, priorities, i + 1)

\* A loop that takes the running maximum over the leaf values it writes.
RECURSIVE UpdateLoopMaxOfLeaf(_, _, _, _, _, _, _)
UpdateLoopMaxOfLeaf(t, maxp, cap, a, indices, priorities, i) ==
  IF i > Len(indices)
  THEN [tree |-> t, maxp |-> maxp, outcome |-> "ok"]
  ELSE IF ~TreeIndexOk(cap, indices[i])
  THEN [tree |-> t, maxp |-> maxp, outcome |-> "ContractViolation"]
  ELSE UpdateLoopMaxOfLeaf(
         TreeUpdate(t, indices[i], UpdatePriority(a, priorities[i])),
         Max2(maxp, UpdatePriority(a, priorities[i])), cap, a, indices,
         priorities, i + 1)

\* A loop that keeps the last priority it saw instead of the largest.
RECURSIVE UpdateLoopLastPriority(_, _, _, _, _, _, _)
UpdateLoopLastPriority(t, maxp, cap, a, indices, priorities, i) ==
  IF i > Len(indices)
  THEN [tree |-> t, maxp |-> maxp, outcome |-> "ok"]
  ELSE IF ~TreeIndexOk(cap, indices[i])
  THEN [tree |-> t, maxp |-> maxp, outcome |-> "ContractViolation"]
  ELSE UpdateLoopLastPriority(
         TreeUpdate(t, indices[i], UpdatePriority(a, priorities[i])),
         priorities[i], cap, a, indices, priorities, i + 1)

\* The loop of update_priorities from its i-th pair on: it stops at the first
\* index the tree refuses, with the earlier pairs applied.
RECURSIVE UpdateLoop(_, _, _, _, _, _, _)
UpdateLoop(t, maxp, cap, a, indices, priorities, i) ==
  IF i > Len(indices)
  THEN [tree |-> t, maxp |-> maxp, outcome |-> "ok"]
  ELSE IF ~TreeIndexOk(cap, indices[i])
  THEN [tree |-> t, maxp |-> maxp, outcome |-> "ContractViolation"]
  ELSE UpdateLoop(TreeUpdate(t, indices[i], UpdatePriority(a, priorities[i])),
                  Max2(maxp, priorities[i]), cap, a, indices, priorities,
                  i + 1)

update_priorities(indices, priorities) ==
  LET r == UpdateLoop(idxSum, max_priority, capacity, alpha,
                      indices, priorities, 1)
  IN /\ call = NoCall
     /\ idxSum' = r.tree
     /\ max_priority' = r.maxp
     /\ outcome' = r.outcome
     /\ call' = [op |-> "update_priorities", indices |-> indices,
                 priorities |-> priorities]
     /\ sampledIndices' = <<>>
     /\ weights' = <<>>
     /\ sampledTransitions' = <<>>
     /\ UNCHANGED <<capacity, batchSize, alpha, position, full, transitions,
                    nStores>>

\* A mass that forgets the offset of its stratum.
MassWithoutOffset(totalSum, bsz, draw, bt) ==
  <<draw[1] * totalSum, draw[2] * bsz>>

\* A mass whose draw is scaled by the whole sum instead of the stratum width.
MassOfWholeSum(totalSum, bsz, draw, bt) ==
  <<(draw[1] * bsz + bt * draw[2]) * totalSum, draw[2] * bsz>>

\* double mass = arma::randu() * sumPerRange + bt * sumPerRange, with
\* sumPerRange = totalSum / batchSize and bt counted from 0.
Mass(totalSum, bsz, draw, bt) ==
  <<(draw[1] + bt * draw[2]) * totalSum, draw[2] * bsz>>

\* A loop that counts its strata from 1 instead of 0.
ProportionalIndicesOneBased(t, cap, bsz, hi, draws) ==
  [bt \in 1..bsz |->
     LET m == Mass(RangeSum(t, 0, hi), bsz, draws[bt], bt)
     IN FindPrefixSum(t, cap, m[1], m[2])]

\* A loop that descends the tree for every mass, the total included.
ProportionalIndicesUnclamped(t, cap, bsz, hi, draws) ==
  [bt \in 1..bsz |->
     LET m == Mass(RangeSum(t, 0, hi), bsz, draws[bt], bt - 1)
     IN Descend(t, 1, m[1], m[2])]

\* The loop of sampleProportional; hi is the upper end of the summed range.
ProportionalIndices(t, cap, bsz, hi, draws) ==
  [bt \in 1..bsz |->
     LET m == Mass(RangeSum(t, 0, hi), bsz, draws[bt], bt - 1)
     IN FindPrefixSum(t, cap, m[1], m[2])]

\* pow(num_sample * p_sample, -beta) with p_sample = leaf / total, in IEEE
\* arithmetic: <<"fin", n, d>> is n/d, <<"inf", 0, 0>> and <<"nan", 0, 0>>
\* are the two special values.
RawWeight(leaf, total, n, beta) ==
  IF beta = 0 THEN <<"fin", 1, 1>>
  ELSE IF total = 0
       THEN (IF leaf = 0 \/ n = 0 THEN <<"nan", 0, 0>> ELSE <<"fin", 0, 1>>)
       ELSE IF n * leaf = 0 THEN <<"inf", 0, 0>>
       ELSE <<"fin", IPow(total, beta), IPow(n * leaf, beta)>>

\* a <= b for two weights that are not NaN.
WeightLeq(a, b) ==
  \/ b[1] = "inf"
  \/ a[1] = "fin" /\ b[1] = "fin" /\ a[2] * b[3] <= b[2] * a[3]

\* weights.max(): a NaN never compares greater, so it is skipped.
MaxWeight(ws) ==
  LET real == {k \in DOMAIN ws : ws[k][1] # "nan"}
  IN IF real = {} THEN <<"nan", 0, 0>>
     ELSE ws[CHOOSE k \in real : \A j \in real : WeightLeq(ws[j], ws[k])]

\* A normalisation that is left out.
DivWeightSkipped(w, m) == w

\* One element of weights /= weights.max().
DivWeight(w, m) ==
  IF w[1] = "nan" \/ m[1] = "nan" THEN <<"nan", 0, 0>>
  ELSE IF m[1] = "inf"
       THEN (IF w[1] = "inf" THEN <<"nan", 0, 0>> ELSE <<"fin", 0, 1>>)
       ELSE IF w[1] = "inf" THEN <<"inf", 0, 0>>
       ELSE IF m[2] = 0 THEN <<"nan", 0, 0>>
       ELSE <<"fin", w[2] * m[3], w[3] * m[2]>>

SampleWeights(t, n, idxs, beta) ==
  LET raw == [k \in DOMAIN idxs |->
                RawWeight(LeafValue(t, idxs[k]), Total(t), n, beta)]
  IN [k \in DOMAIN idxs |-> DivWeight(raw[k], MaxWeight(raw))]

DrawSeqs == [1..batchSize -> Draws]

sampleProportional(draws) ==
  LET hi == SizeTDec(UpperBound)
  IN /\ call = NoCall
     /\ call' = [op |-> "sampleProportional", draws |-> draws]
     /\ IF TreeIndexOk(capacity, hi)
        THEN /\ outcome' = "ok"
             /\ sampledIndices' =
                  ProportionalIndices(idxSum, capacity, batchSize, hi, draws)
        ELSE /\ outcome' = "ContractViolation"
             /\ sampledIndices' = <<>>
     /\ weights' = <<>>
     /\ sampledTransitions' = <<>>
     /\ UNCHANGED bufferVars

Sample(draws, beta) ==
  LET hi == SizeTDec(UpperBound)
      idxs == ProportionalIndices(idxSum, capacity, batchSize, hi, draws)
  IN /\ call = NoCall
     /\ call' = [op |-> "Sample", draws |-> draws, beta |-> beta]
     /\ IF TreeIndexOk(capacity, hi)
        THEN /\ outcome' = "ok"
             /\ sampledIndices' = idxs
             /\ sampledTransitions' =
                  [k \in DOMAIN idxs |-> transitions[idxs[k]]]
             /\ weights' = SampleWeights(idxSum, UpperBound, idxs, beta)
        ELSE /\ outcome' = "ContractViolation"
             /\ sampledIndices' = <<>>
             /\ sampledTransitions' = <<>>
             /\ weights' = <<>>
     /\ UNCHANGED bufferVars

\* The caller takes the result; its next call starts from here.
Return ==
  /\ call # NoCall
  /\ call' = NoCall
  /\ outcome' = "ok"
  /\ sampledIndices' = <<>>
  /\ weights' = <<>>
  /\ sampledTransitions' = <<>>
  /\ UNCHANGED bufferVars

\* The learner reports one priority per index of the batch it sampled.
UpdateArgs == [1..batchSize -> (0..capacity) \X Priorities]

DoUpdate ==
  \E args \in UpdateArgs :
    update_priorities([k \in DOMAIN args |-> args[k][1]],
                      [k \in DOMAIN args |-> args[k][2]])

DoSampleProportional == \E draws \in DrawSeqs : sampleProportional(draws)

DoSample == \E draws \in DrawSeqs, beta \in Betas : Sample(draws, beta)

\* One caller at a time, with no bookkeeping of what was sampled.
Next ==
  \/ Store /\ UNCHANGED <<ledgerVars, actors>>
  \/ DoUpdate /\ UNCHANGED <<ledgerVars, actors>>
  \/ DoSampleProportional /\ UNCHANGED <<ledgerVars, actors>>
  \/ DoSample /\ UNCHANGED <<ledgerVars, actors>>
  \/ Return /\ UNCHANGED <<ledgerVars, actors>>

Spec == Init /\ [][Next]_vars

\* The buffer of the worked scenario: capacity 4, batches of 2, alpha 1, and a
\* learner that reports priorities 1 and 3 for slots 0 and 2.
ScenarioInit == Construct(2, 4, 1)

ScenarioUpdateArgs == [1..2 -> {0, 2} \X {1, 3}]

DoScenarioUpdate ==
  \E args \in ScenarioUpdateArgs :
    update_priorities([k \in DOMAIN args |-> args[k][1]],
                      [k \in DOMAIN args |-> args[k][2]])

ScenarioNext ==
  \/ Store /\ UNCHANGED <<ledgerVars, actors>>
  \/ DoScenarioUpdate /\ UNCHANGED <<ledgerVars, actors>>
  \/ DoSampleProportional /\ UNCHANGED <<ledgerVars, actors>>
  \/ DoSample /\ UNCHANGED <<ledgerVars, actors>>
  \/ Return /\ UNCHANGED <<ledgerVars, actors>>

ScenarioSpec == ScenarioInit /\ [][ScenarioNext]_vars

-----------------------------------------------------------------------------
(* The learner's loop: it samples, and reports priorities only for indices  *)
(* a sampling call has returned to it.                                      *)

Returned(idxs) == {idxs[k] : k \in DOMAIN idxs}

\* Store replaces the transition of the slot at the cursor: that slot's
\* current transition has not been sampled yet.
LedgerStore ==
  /\ Store
  /\ sampledCurrent' = sampledCurrent \ {position}
  /\ UNCHANGED <<returnedIndices, actors>>

\* The learner samples through Sample; the weights take no part in what it
\* reports back, so beta is held at 1.
LedgerSample ==
  /\ \E draws \in DrawSeqs : Sample(draws, 1)
  /\ returnedIndices' = returnedIndices \cup Returned(sampledIndices')
  /\ sampledCurrent' = sampledCurrent \cup Returned(sampledIndices')
  /\ UNCHANGED actors

\* The learner reports back one returned index at a time.
LedgerUpdateArgs == [1..1 -> returnedIndices \X Priorities]

LedgerUpdate ==
  /\ \E args \in LedgerUpdateArgs :
       update_priorities([k \in DOMAIN args |-> args[k][1]],
                         [k \in DOMAIN args |-> args[k][2]])
  /\ UNCHANGED <<ledgerVars, actors>>

LedgerReturn == Return /\ UNCHANGED <<ledgerVars, actors>>

LedgerNext ==
  \/ LedgerStore
  \/ LedgerSample
  \/ LedgerUpdate
  \/ LedgerReturn

LedgerSpec == Init /\ [][LedgerNext]_vars

-----------------------------------------------------------------------------
(* Two actors inside Store at once.  The class takes no lock, so the        *)
(* statements of two calls interleave; one step is one group of statements. *)

callVars == <<call, outcome, sampledIndices, weights, sampledTransitions>>

\* states.col(position) = ...; .. isTerminal(position) = isEnd;
StoreFields(a) ==
  /\ actors[a].pc = "idle"
  /\ nStores < capacity + MaxExtraStores
  /\ transitions' = [transitions EXCEPT ![position] = nStores + 1]
  /\ nStores' = nStores + 1
  /\ actors' = [actors EXCEPT ![a] = [pc |-> "fields", slot |-> position]]
  /\ UNCHANGED <<capacity, batchSize, alpha, position, full, max_priority,
                 idxSum, callVars, ledgerVars>>

\* idxSum[position] = max_priority * alpha;
StoreLeaf(a) ==
  /\ actors[a].pc = "fields"
  /\ idxSum' = TreeUpdate(idxSum, position, StorePriority(max_priority, alpha))
  /\ actors' = [actors EXCEPT ![a].pc = "leaf"]
  /\ UNCHANGED <<capacity, batchSize, alpha, position, full, max_priority,
                 transitions, nStores, callVars, ledgerVars>>

\* position++; if (position == capacity) { full = true; position = 0; }
StoreAdvance(a) ==
  /\ actors[a].pc = "leaf"
  /\ position' = AdvanceCursor(position, capacity, full).position
  /\ full' = AdvanceCursor(position, capacity, full).full
  /\ actors' = [actors EXCEPT ![a] = Idle]
  /\ UNCHANGED <<capacity, batchSize, alpha, max_priority, transitions,
                 idxSum, nStores, callVars, ledgerVars>>

ConcurrentNext ==
  \/ \E a \in Actors : StoreFields(a)
  \/ \E a \in Actors : StoreLeaf(a)
  \/ \E a \in Actors : StoreAdvance(a)

ConcurrentSpec == Init /\ [][ConcurrentNext]_vars

-----------------------------------------------------------------------------
(* Properties.                                                             *)

InternalNodes == 1..(TreeSize(idxSum) - 1)

\* The slot the last Store wrote: the write cursor before it advanced.
StoredSlot == (position + capacity - 1) % capacity

IsSampling == call.op \in {"Sample", "sampleProportional"}

\* C1: after any sequence of Store and update_priorities calls every internal
\* node of the sum-tree holds the sum of its two children.
C1_SumInvariant ==
  \A node \in InternalNodes :
    idxSum[node] = idxSum[2 * node] + idxSum[2 * node + 1]

\* A three-slot buffer (one padding leaf) after a store and a priority
\* update, with mass in both halves of the tree.
C1_Witness ==
  /\ capacity = 3
  /\ call.op = "update_priorities"
  /\ outcome = "ok"
  /\ nStores >= 1
  /\ idxSum[2] > 0
  /\ idxSum[3] > 0

\* C2: Sample and sampleProportional return only indices below upperBound,
\* and only indices of slots that have been written.
C2_SampledInPopulatedRange ==
  (IsSampling /\ outcome = "ok") =>
    \A k \in DOMAIN sampledIndices :
      /\ sampledIndices[k] < UpperBound
      /\ transitions[sampledIndices[k]] # 0

\* The 0-based sequence number of the latest Store that wrote slot i.
LatestSeq(i) ==
  CHOOSE j \in 0..(nStores - 1) :
    /\ j % capacity = i
    /\ \A j2 \in 0..(nStores - 1) : j2 % capacity = i => j2 <= j

\* C3: after capacity + k Store calls (k >= 1) the buffer is full and slot i
\* holds the latest transition stored with sequence number congruent to i;
\* the retained transitions are the most recent capacity ones.
C3_CapacityWrap ==
  nStores >= capacity + 1 =>
    /\ full
    /\ \A i \in Slots : transitions[i] = LatestSeq(i) + 1
    /\ {transitions[i] : i \in Slots} = (nStores - capacity + 1)..nStores

\* A three-slot buffer right after its fourth Store.
C3_Witness ==
  /\ capacity = 3
  /\ nStores = capacity + 1
  /\ call.op = "Store"
  /\ transitions[0] = 4

\* C4: Store sets the leaf of the slot it writes to maxPriority ^ alpha
\* (Store leaves max_priority as it was at the call).
C4_StoreLeafIsPower ==
  call.op = "Store" =>
    LeafValue(idxSum, StoredSlot) = IPow(max_priority, alpha)

\* The last position of index indices[k] in indices.
LastOccurrence(indices, k) ==
  CHOOSE j \in DOMAIN indices :
    /\ indices[j] = indices[k]
    /\ \A j2 \in DOMAIN indices : indices[j2] = indices[k] => j2 <= j

RECURSIVE MaxOver(_, _, _)
MaxOver(m, ps, i) ==
  IF i > Len(ps) THEN m ELSE MaxOver(Max2(m, ps[i]), ps, i + 1)

\* C5: update_priorities sets the leaf of every index to newPriority ^ alpha
\* (the last occurrence of an index wins) and raises max_priority to the
\* largest priority given.
C5_UpdateSetsPower ==
  [][(call'.op = "update_priorities" /\ outcome' = "ok") =>
       /\ \A k \in DOMAIN call'.indices :
            LeafValue(idxSum', call'.indices[k]) =
              IPow(call'.priorities[LastOccurrence(call'.indices, k)], alpha)
       /\ max_priority' = MaxOver(max_priority, call'.priorities, 1)]_vars

\* C6: Sample or sampleProportional on a buffer that holds no transition
\* fails with EmptyBufferError and returns nothing.
C6_EmptyBufferRejected ==
  (IsSampling /\ UpperBound = 0) =>
    /\ outcome = "EmptyBufferError"
    /\ sampledIndices = <<>>
    /\ weights = <<>>
    /\ sampledTransitions = <<>>

\* The leaves of the populated-capacity part of the tree, as a sequence.
LeafSeq(t) == [i \in 1..capacity |-> LeafValue(t, i - 1)]

InScenario == capacity = 4 /\ batchSize = 2 /\ alpha = 1 /\ nStores = 4

TenthDraws == <<(<<1, 10>>), (<<1, 10>>)>>

\* The masses of the two strata are 0.3 and 3.3.
ScenarioMasses ==
  LET m0 == Mass(Total(idxSum), batchSize, <<1, 10>>, 0)
      m1 == Mass(Total(idxSum), batchSize, <<1, 10>>, 1)
  IN m0[1] * 10 = 3 * m0[2] /\ m1[1] * 10 = 33 * m1[2]

ScenarioUpdateStep ==
  (/\ InScenario
   /\ LeafSeq(idxSum) = <<1, 1, 1, 1>>
   /\ call'.op = "update_priorities"
   /\ call'.indices = <<0, 2>>
   /\ call'.priorities = <<3, 1>>)
  => (LeafSeq(idxSum') = <<3, 1, 1, 1>> /\ Total(idxSum') = 6)

ScenarioSampleResult(res) ==
  (/\ InScenario
   /\ LeafSeq(idxSum) = <<3, 1, 1, 1>>
   /\ call.op = "sampleProportional"
   /\ call.draws = TenthDraws)
  => (ScenarioMasses /\ sampledIndices = res)

\* C7 (as stated): with capacity 4, batchSize 2, alpha 1, four stores and
\* update_priorities([0,2],[3,1]) give leaves [3,1,1,1], total 6, and the
\* draws 0.1, 0.1 (masses 0.3 and 3.3) resolve to the indices 0 and 2.
C7_ScenarioAsStated ==
  /\ [][ScenarioUpdateStep]_vars
  /\ [](ScenarioSampleResult(<<0, 2>>))

\* C7 (amended): with capacity 4, batchSize 2, alpha 1, four stores and
\* update_priorities([0,2],[3,1]) give leaves [3,1,1,1], total 6, and the
\* draws 0.1, 0.1 (masses 0.3 and 3.3) resolve to the indices 0 and 1: the
\* prefix sums are 3, 4, 5, 6 and 3.3 lies in [3, 4).
C7_Scenario ==
  /\ [][ScenarioUpdateStep]_vars
  /\ [](ScenarioSampleResult(<<0, 1>>))

\* The scenario's sampleProportional call has returned.
C7_Witness ==
  /\ InScenario
  /\ LeafSeq(idxSum) = <<3, 1, 1, 1>>
  /\ Total(idxSum) = 6
  /\ call.op = "sampleProportional"
  /\ call.draws = TenthDraws
  /\ sampledIndices = <<0, 1>>

IsOne(w) == w[1] = "fin" /\ w[2] = w[3] /\ w[3] > 0

InUnitInterval(w) == w[1] = "fin" /\ w[3] > 0 /\ 0 < w[2] /\ w[2] <= w[3]

SampledLeaf(k) == LeafValue(idxSum, sampledIndices[k])

WeightsNormalized ==
  /\ \A k \in DOMAIN weights : InUnitInterval(weights[k])
  /\ \E k \in DOMAIN weights : IsOne(weights[k])
  /\ \A k \in DOMAIN weights :
       (\A j \in DOMAIN weights : SampledLeaf(k) <= SampledLeaf(j))
         => IsOne(weights[k])

\* C8 (as stated): after every successful Sample with beta > 0 the largest
\* weight is exactly 1, every weight lies in (0, 1] and the sample with the
\* smallest leaf has weight 1.  Stated here for the calls in which alpha = 1
\* (max_priority * alpha is then max_priority ^ alpha) and every returned
\* index is a written slot, so that no other defect of the code takes part.
C8_WeightsNormalizedAlways ==
  (/\ call.op = "Sample" /\ outcome = "ok" /\ call.beta > 0
   /\ alpha = 1
   /\ \A k \in DOMAIN sampledIndices : sampledIndices[k] < UpperBound)
    => WeightsNormalized

\* C8 (amended): after every successful Sample with beta > 0 in which every
\* sampled slot has a positive leaf, the largest weight is exactly 1, every
\* weight lies in (0, 1] and the sample with the smallest leaf has weight 1.
C8_WeightsNormalized ==
  (/\ call.op = "Sample" /\ outcome = "ok" /\ call.beta > 0
   /\ \A k \in DOMAIN sampledIndices : SampledLeaf(k) > 0)
    => WeightsNormalized

\* A batch of two samples with different positive leaves.
C8_Witness ==
  /\ call.op = "Sample"
  /\ outcome = "ok"
  /\ call.beta > 0
  /\ Len(sampledIndices) = 2
  /\ SampledLeaf(1) > 0
  /\ SampledLeaf(2) > SampledLeaf(1)
  /\ IsOne(weights[1])
  /\ ~IsOne(weights[2])

\* C9: update_priorities given an index outside the populated range fails
\* with IndexOutOfRange / ContractViolation and changes no leaf,
\* max_priority, cursor or full flag.
C9_OutOfRangeRejected ==
  [][(/\ call'.op = "update_priorities"
      /\ \E k \in DOMAIN call'.indices :
           ~(0 <= call'.indices[k] /\ call'.indices[k] < UpperBound))
     => (/\ outcome' \in {"IndexOutOfRange", "ContractViolation"}
         /\ idxSum' = idxSum
         /\ max_priority' = max_priority
         /\ position' = position
         /\ full' = full)]_vars

\* C10: the buffer starts not full; full holds exactly when at least
\* capacity Store calls have been made; it turns true only at the Store that
\* wraps the cursor from capacity - 1 to 0, and never turns false again.
C10_FullOnce ==
  /\ [](full <=> nStores >= capacity)
  /\ [][full => full']_vars
  /\ [][(~full /\ full') =>
          (call'.op = "Store" /\ position = capacity - 1 /\ position' = 0)]_vars

\* A full buffer that has taken a priority update and a Sample since it
\* filled.
C10_Witness ==
  /\ full
  /\ nStores > capacity
  /\ capacity > 1
  /\ call.op = "Sample"
  /\ max_priority > 1

IsUpdateStep == call'.op = "update_priorities"

\* The slots whose leaf the step changes.
ChangedLeaves == {i \in Slots : LeafValue(idxSum', i) # LeafValue(idxSum, i)}

\* The slot has been overwritten: its transition is not the first it held.
Overwritten(i) == transitions[i] > capacity

\* C11 (as stated): when update_priorities is only given indices that an
\* earlier sampling call returned, it never changes the leaf of a slot whose
\* current transition has not been sampled yet.  Stated here for the case
\* the claim names, a slot that Store has overwritten, and for alpha = 1,
\* where max_priority * alpha is max_priority ^ alpha.
C11_SampledBeforeRefined ==
  [][(IsUpdateStep /\ alpha = 1) =>
       \A i \in ChangedLeaves : Overwritten(i) => i \in sampledCurrent]_vars

\* C11 (amended): when update_priorities is only given indices that a
\* sampling call has returned since the slot was last written by Store, it
\* never changes the leaf of a slot whose current transition has not been
\* sampled yet.
C11_FreshIndicesOnly ==
  [][(/\ IsUpdateStep
      /\ \A k \in DOMAIN call'.indices : call'.indices[k] \in sampledCurrent)
     => \A i \in ChangedLeaves : i \in sampledCurrent]_vars

\* An update of slot 1 to priority 2 after a sampling call that returned it,
\* in a buffer whose slot 0 has been sampled and then overwritten.
C11_Witness ==
  /\ call.op = "update_priorities"
  /\ outcome = "ok"
  /\ \A k \in DOMAIN call.indices : call.indices[k] = 1
  /\ 1 \in sampledCurrent
  /\ 0 \in returnedIndices \ sampledCurrent
  /\ Overwritten(0)
  /\ alpha = 1
  /\ LeafValue(idxSum, 1) = 2

\* sum(leaves[0..i-1])
PrefixSum(t, i) == RangeSum(t, 0, i - 1)

\* sum(leaves[0..i-1]) <= mn/md < sum(leaves[0..i])
Brackets(t, i, mn, md) ==
  PrefixSum(t, i) * md <= mn /\ mn < PrefixSum(t, i + 1) * md

AllLeaves == 0..(TreeSize(idxSum) - 1)

\* The mass of stratum k (counted from 1) of the sampling call that has just
\* returned: (draw + (k - 1)) * RangeSum(0, upperBound - 1) / batchSize.
SampledMass(k) ==
  <<(call.draws[k][1] + (k - 1) * call.draws[k][2])
      * RangeSum(idxSum, 0, UpperBound - 1),
    call.draws[k][2] * batchSize>>

MassBelowTotal(k) == SampledMass(k)[1] < Total(idxSum) * SampledMass(k)[2]

\* C12: on a tree that satisfies the sum invariant, FindPrefixSum of a mass
\* with 0 <= mass < Total() is the unique leaf index i with
\* sum(leaves[0..i-1]) <= mass < sum(leaves[0..i]): for every mass that is a
\* multiple of 1/2, on every tree the buffer holds between two calls, and for
\* every mass a sampling call computed; the masses 0, 1, .., Total() - 1 that
\* resolve to leaf i are leaf(i) many.
C12_PrefixSumBracket ==
  C1_SumInvariant =>
    /\ call = NoCall =>
         /\ \A mn \in 0..(2 * Total(idxSum) - 1) :
              /\ Brackets(idxSum, FindPrefixSum(idxSum, capacity, mn, 2),
                          mn, 2)
              /\ \A j \in AllLeaves :
                   Brackets(idxSum, j, mn, 2)
                     => j = FindPrefixSum(idxSum, capacity, mn, 2)
         /\ \A i \in AllLeaves :
              Cardinality({mn \in 0..(Total(idxSum) - 1) :
                             FindPrefixSum(idxSum, capacity, mn, 1) = i})
                = LeafValue(idxSum, i)
    /\ (IsSampling /\ outcome = "ok") =>
         \A k \in DOMAIN sampledIndices :
           MassBelowTotal(k) =>
             Brackets(idxSum, sampledIndices[k],
                      SampledMass(k)[1], SampledMass(k)[2])

\* A batch of two masses below the total that resolve to different slots of a
\* tree with unequal leaves.
C12_Witness ==
  /\ IsSampling
  /\ outcome = "ok"
  /\ Len(sampledIndices) = 2
  /\ MassBelowTotal(1)
  /\ MassBelowTotal(2)
  /\ sampledIndices[1] = 0
  /\ sampledIndices[2] = 1
  /\ LeafValue(idxSum, 0) = 2
  /\ LeafValue(idxSum, 1) = 1

SamplingReturned == IsSampling /\ outcome = "ok"

\* Every returned index is FindPrefixSum of the mass of its stratum, there are
\* batchSize of them, and they do not decrease.
OnePerStratum ==
  /\ Len(sampledIndices) = batchSize
  /\ \A k \in DOMAIN sampledIndices :
       sampledIndices[k] =
         FindPrefixSum(idxSum, capacity, SampledMass(k)[1], SampledMass(k)[2])
  /\ \A k \in 2..Len(sampledIndices) :
       sampledIndices[k - 1] <= sampledIndices[k]

\* b * segment <= mass of stratum b, with b = k - 1.
AboveStratumStart(k) ==
  (k - 1) * RangeSum(idxSum, 0, UpperBound - 1) * call.draws[k][2]
    <= SampledMass(k)[1]

\* (b + 1) * segment, as a numerator over the denominator of SampledMass(k).
StratumEnd(k) == k * RangeSum(idxSum, 0, UpperBound - 1) * call.draws[k][2]

\* C13 (as stated): sampleProportional returns exactly batchSize indices; the
\* b-th is FindPrefixSum of a mass in [b*segment, (b+1)*segment), the masses
\* increase strictly with b and the indices never decrease.  Stated here for
\* the calls in which alpha = 1, where max_priority * alpha is
\* max_priority ^ alpha.
C13_StrataHalfOpen ==
  (SamplingReturned /\ alpha = 1) =>
    /\ OnePerStratum
    /\ \A k \in DOMAIN sampledIndices :
         AboveStratumStart(k) /\ SampledMass(k)[1] < StratumEnd(k)
    /\ \A k \in 2..Len(sampledIndices) :
         SampledMass(k - 1)[1] * SampledMass(k)[2]
           < SampledMass(k)[1] * SampledMass(k - 1)[2]

\* C13 (amended): sampleProportional returns exactly batchSize indices; the
\* b-th is FindPrefixSum of a mass in the closed interval
\* [b*segment, (b+1)*segment], so the masses never decrease with b and the
\* indices never decrease.
C13_StrataClosed ==
  SamplingReturned =>
    /\ OnePerStratum
    /\ \A k \in DOMAIN sampledIndices :
         AboveStratumStart(k) /\ SampledMass(k)[1] <= StratumEnd(k)
    /\ \A k \in 2..Len(sampledIndices) :
         SampledMass(k - 1)[1] * SampledMass(k)[2]
           <= SampledMass(k)[1] * SampledMass(k - 1)[2]

\* Two strata over a positive total, the first drawn at its upper end and the
\* second at its lower end: the two masses are equal.
C13_Witness ==
  /\ SamplingReturned
  /\ batchSize = 2
  /\ RangeSum(idxSum, 0, UpperBound - 1) > 0
  /\ call.draws = <<(<<1, 1>>), (<<0, 1>>)>>
  /\ sampledIndices[1] = sampledIndices[2]

InStore(a) == actors[a].pc # "idle"

\* C15: Store executes under mutual exclusion as one atomic step, so no two
\* Store calls that are under way at the same time have written the same
\* cursor slot (in a buffer of more than one slot).
C15_StoresExclusive ==
  capacity > 1 =>
    \A a \in Actors, b \in Actors :
      (a # b /\ InStore(a) /\ InStore(b)) => actors[a].slot # actors[b].slot

\* The number of leading pairs of a call that update_priorities applies: the
\* pairs before the first index the tree refuses.
AppliedPairs(indices) ==
  IF \A k \in DOMAIN indices : TreeIndexOk(capacity, indices[k])
  THEN Len(indices)
  ELSE (CHOOSE k \in DOMAIN indices :
          /\ ~TreeIndexOk(capacity, indices[k])
          /\ \A j \in 1..(k - 1) : TreeIndexOk(capacity, indices[j])) - 1

MaxPriorityFrame ==
  /\ max_priority' >= max_priority
  /\ ~IsUpdateStep => max_priority' = max_priority

UnpopulatedLeavesZero ==
  /\ \A i \in AllLeaves : i >= UpperBound => LeafValue(idxSum, i) = 0
  /\ Total(idxSum) = RangeSum(idxSum, 0, UpperBound - 1)

\* An update_priorities call given an index outside the populated range.
UpdateOutsidePopulated ==
  /\ IsUpdateStep
  /\ \E k \in DOMAIN call'.indices : call'.indices[k] >= UpperBound

\* C17: as long as update_priorities is given only indices of the populated
\* range, every leaf outside [0, upperBound) is zero, padding leaves
\* included, and the whole-tree total equals RangeSum(0, upperBound - 1): it
\* is so after construction, and every step other than an update_priorities
\* call with an index outside the populated range keeps it so.
C17_UnpopulatedLeavesZero ==
  /\ UnpopulatedLeavesZero
  /\ [][(UnpopulatedLeavesZero /\ ~UpdateOutsidePopulated)
          => UnpopulatedLeavesZero']_vars

\* A partly filled three-slot buffer after an update of its populated slots.
C17_Witness ==
  /\ capacity = 3
  /\ position = 2
  /\ ~full
  /\ call.op = "update_priorities"
  /\ outcome = "ok"
  /\ \A k \in DOMAIN call.indices : call.indices[k] < UpperBound
  /\ LeafValue(idxSum, 1) = 2
  /\ UnpopulatedLeavesZero

\* C18: after n Store calls, interleaved with any Sample and
\* update_priorities calls, 0 <= position < capacity,
\* position = n mod capacity, and upperBound (capacity if full, else
\* position) is min(n, capacity).
C18_CursorCountsStores ==
  /\ 0 <= position
  /\ position < capacity
  /\ position = nStores % capacity
  /\ UpperBound = (IF nStores < capacity THEN nStores ELSE capacity)

\* A three-slot buffer that has wrapped, seen after a later update.
C18_Witness ==
  /\ capacity = 3
  /\ nStores = 4
  /\ position = 1
  /\ UpperBound = 3
  /\ call.op = "update_priorities"

\* C19: no leaf exceeds the entry priority a newly stored transition would
\* receive, leaf(i) <= f(max_priority) with f the transform Store and
\* update_priorities apply, so the leaf of a just-stored transition is the
\* largest among the populated slots.
C19_LeafAtMostEntryPriority ==
  /\ \A i \in Slots :
       LeafValue(idxSum, i) <= StorePriority(max_priority, alpha)
  /\ call.op = "Store" =>
       \A i \in Slots :
         i < UpperBound
           => LeafValue(idxSum, i) <= LeafValue(idxSum, StoredSlot)

\* A Store made after max_priority rose to 2, next to an older leaf of 1.
C19_Witness ==
  /\ call.op = "Store"
  /\ alpha = 1
  /\ max_priority = 2
  /\ LeafValue(idxSum, StoredSlot) = 2
  /\ \E i \in Slots : i < UpperBound /\ LeafValue(idxSum, i) = 1

\* The nodes from node up to the root.
RECURSIVE PathToRoot(_)
PathToRoot(node) ==
  IF node <= 1 THEN {1} ELSE {node} \cup PathToRoot(node \div 2)

SamplingFrame ==
  call'.op \in {"Sample", "sampleProportional"} =>
    UNCHANGED <<position, full, max_priority, idxSum, transitions>>

UpdateFrame == IsUpdateStep => UNCHANGED <<position, full, transitions>>

StoreFrame ==
  (call'.op = "Store" /\ call.op = "none") =>
    /\ max_priority' = max_priority
    /\ \A i \in Slots \ {position} : transitions'[i] = transitions[i]
    /\ \A node \in DOMAIN idxSum :
         node \notin PathToRoot(TreeSize(idxSum) + position)
           => idxSum'[node] = idxSum[node]

\* C20: Sample and sampleProportional leave the write cursor, the full flag,
\* max_priority, every tree node and every stored transition unchanged;
\* update_priorities leaves the write cursor, the full flag and every stored
\* transition unchanged; of the transitions and tree nodes, Store changes
\* only the transition at the write cursor and that slot's leaf with its
\* ancestors, and it leaves max_priority unchanged.
C20_FrameConditions ==
  /\ [][SamplingFrame]_vars
  /\ [][UpdateFrame]_vars
  /\ [][StoreFrame]_vars

\* A Store into the middle slot of a three-slot buffer whose other two
\* leaves differ from the one it wrote.
C20_Witness ==
  /\ call.op = "Store"
  /\ capacity = 3
  /\ StoredSlot = 1
  /\ LeafValue(idxSum, 0) = 1
  /\ LeafValue(idxSum, 1) = 2
  /\ LeafValue(idxSum, 2) = 0

====
